---- MODULE Spec2Model ----
(***************************************************************************)
(* Model of the two setup scripts docs/kiet/setup_scripts/install_aikbt.py *)
(* (Installer A) and docs/kiet/setup_scripts/setup_tools.py (Installer B). *)
(*                                                                         *)
(* Three specifications share the module:                                  *)
(*   SpecLine  ensure_line_in_file applied repeatedly to one file          *)
(*   SpecA     runs of install_aikbt.py                                    *)
(*   SpecB     runs of setup_tools.py                                      *)
(* A file is a record [exists, content]; content is a sequence of          *)
(* characters, where "NL" is '\n', "CR" is '\r' and any other string is a  *)
(* chunk of text without a line break.                                     *)
(***************************************************************************)
EXTENDS Integers, Sequences, FiniteSets, TLC

VARIABLES
    \* SpecLine
    fFile, fLine, fInit, fPrev, fCalls,
    \* SpecA
    aRoot, aSudo, aCurl, aUpdAlt, aLldb15,
    aPc, aExit, aWhy, aLog, aSteps, aRuns, aSudoChecked,
    lldbinit, bashrc, lldbinit0, bashrc0, btSize, rendSize,
    \* SpecB
    bOs, bEuid0, bSudo, bBrew, bWinget,
    bPc, bExit, bWhy, bLog, bSteps, bRuns, bVenv, bVenvPath, bSudoChecked

fVars == <<fFile, fLine, fInit, fPrev, fCalls>>
aVars == <<aRoot, aSudo, aCurl, aUpdAlt, aLldb15, aPc, aExit, aWhy, aLog,
           aSteps, aRuns, aSudoChecked, lldbinit, bashrc, lldbinit0, bashrc0,
           btSize, rendSize>>
bVars == <<bOs, bEuid0, bSudo, bBrew, bWinget, bPc, bExit, bWhy, bLog, bSteps,
           bRuns, bVenv, bVenvPath, bSudoChecked>>
vars == <<fVars, aVars, bVars>>

----------------------------------------------------------------------------
(* Bounds *)

MaxFileLen == 3
MaxLineLen == 2
MaxCalls == 3
MaxRuns == 2

----------------------------------------------------------------------------
(* Text: reading, line splitting, idempotent line insertion *)

NL == "NL"
CR == "CR"
Alphabet == {"a", "b", NL, CR}

SeqsUpTo(S, n) == UNION {[1..k -> S] : k \in 0..n}

Last(s) == s[Len(s)]

\* Path.read_text opens the file in text mode with newline=None: the line
\* endings '\r\n' and '\r' are translated to '\n'.
RECURSIVE read_text(_)
read_text(raw) ==
    IF raw = <<>> THEN <<>>
    ELSE IF Head(raw) = CR
         THEN IF Len(raw) >= 2 /\ raw[2] = NL
              THEN <<NL>> \o read_text(SubSeq(raw, 3, Len(raw)))
              ELSE <<NL>> \o read_text(Tail(raw))
         ELSE <<Head(raw)>> \o read_text(Tail(raw))

\* str.splitlines: a line ends at '\n', '\r' or '\r\n'; the breaks are not
\* kept and there is no empty last element.
RECURSIVE splitFrom(_, _)
splitFrom(text, cur) ==
    IF text = <<>> THEN (IF cur = <<>> THEN <<>> ELSE <<cur>>)
    ELSE IF Head(text) = CR /\ Len(text) >= 2 /\ text[2] = NL
         THEN <<cur>> \o splitFrom(SubSeq(text, 3, Len(text)), <<>>)
    ELSE IF Head(text) \in {NL, CR}
         THEN <<cur>> \o splitFrom(Tail(text), <<>>)
    ELSE splitFrom(Tail(text), Append(cur, Head(text)))

splitlines(text) == splitFrom(text, <<>>)

endswith_newline(text) == text # <<>> /\ Last(text) = NL

InSeq(x, s) == \E i \in 1..Len(s) : s[i] = x

Absent == [exists |-> FALSE, content |-> <<>>]
FileOf(c) == [exists |-> TRUE, content |-> c]

ensure_line_always_append(f, line) ==
    LET existing == IF f.exists THEN splitlines(read_text(f.content)) ELSE <<>>
        sep == IF existing # <<>> /\ ~endswith_newline(read_text(f.content))
               THEN <<NL>> ELSE <<>>
    IN FileOf(f.content \o sep \o line \o <<NL>>)

ensure_line_in_file(f, line) ==
    LET existing == IF f.exists THEN splitlines(read_text(f.content)) ELSE <<>>
        sep == IF existing # <<>> /\ ~endswith_newline(read_text(f.content))
               THEN <<NL>> ELSE <<>>
    IN IF f.exists /\ InSeq(line, existing)
       THEN f
       ELSE FileOf(f.content \o sep \o line \o <<NL>>)

\* The lines of a file as the script reads them, and how often one occurs.
LinesOf(f) == IF f.exists THEN splitlines(read_text(f.content)) ELSE <<>>
Count(f, line) == Cardinality({i \in 1..Len(LinesOf(f)) : LinesOf(f)[i] = line})
OtherLines(f, line) == SelectSeq(LinesOf(f), LAMBDA l : l # line)
NoBreak(line) == \A i \in 1..Len(line) : line[i] \notin {NL, CR}
IsPrefix(s, t) == Len(s) <= Len(t) /\ SubSeq(t, 1, Len(s)) = s

----------------------------------------------------------------------------
(* SpecLine: ensure_line_in_file called repeatedly on one file *)

FilesInit == {Absent} \cup {FileOf(c) : c \in SeqsUpTo(Alphabet, MaxFileLen)}
\* A line of text holds no line break.
LineAlphabet == Alphabet \ {NL, CR}
LinesInit == SeqsUpTo(LineAlphabet, MaxLineLen)

aFrozen ==
    /\ aRoot = FALSE /\ aSudo = FALSE /\ aCurl = FALSE /\ aUpdAlt = FALSE
    /\ aLldb15 = FALSE /\ aPc = "idle" /\ aExit = -1 /\ aWhy = "idle"
    /\ aLog = <<>> /\ aSteps = <<>> /\ aRuns = 0 /\ aSudoChecked = FALSE
    /\ lldbinit = Absent /\ bashrc = Absent
    /\ lldbinit0 = Absent /\ bashrc0 = Absent
    /\ btSize = -1 /\ rendSize = -1

bFrozen ==
    /\ bOs = "linux" /\ bEuid0 = FALSE /\ bSudo = FALSE /\ bBrew = FALSE
    /\ bWinget = FALSE /\ bPc = "idle" /\ bExit = -1 /\ bWhy = "idle"
    /\ bLog = <<>> /\ bSteps = <<>> /\ bRuns = 0 /\ bVenv = {}
    /\ bVenvPath = "" /\ bSudoChecked = FALSE

fFrozen ==
    /\ fFile = Absent /\ fLine = <<>> /\ fInit = Absent /\ fPrev = Absent
    /\ fCalls = 0

InitLine ==
    /\ fFile \in FilesInit
    /\ fLine \in LinesInit
    /\ fInit = fFile
    /\ fPrev = fFile
    /\ fCalls = 0
    /\ aFrozen /\ bFrozen

CallEnsureLine ==
    /\ fCalls < MaxCalls
    /\ fPrev' = fFile
    /\ fFile' = ensure_line_in_file(fFile, fLine)
    /\ fCalls' = fCalls + 1
    /\ UNCHANGED <<fLine, fInit, aVars, bVars>>

NextLine == CallEnsureLine

SpecLine == InitLine /\ [][NextLine]_vars

----------------------------------------------------------------------------
(* External commands: exit codes and the log of the commands a run made *)

\* Exit codes an external command may return (0 is success).
Rcs == {0, 1, 100}

\* One command a run made: the step of main that made it, its argument
\* vector, its exit code, whether it was run with check=True, and whether
\* the presence of 'sudo' had been looked up earlier in the run.
Entry(step, cmd, rc, check, hc) ==
    [step |-> step, cmd |-> cmd, rc |-> rc, check |-> check, helperChecked |-> hc]

FirstFail(rcs, n) ==
    IF \E i \in 1..n : rcs[i] # 0
    THEN CHOOSE i \in 1..n : rcs[i] # 0 /\ \A j \in 1..(i - 1) : rcs[j] = 0
    ELSE 0

run_unchecked(step, cmds, rcs, hc) ==
    [i \in 1..Len(cmds) |-> Entry(step, cmds[i], rcs[i], TRUE, hc)]

\* run(cmd, check=True) for each command of cmds in turn: a non-zero exit
\* code raises CalledProcessError, so the commands after it are not run.
run_checked(step, cmds, rcs, hc) ==
    LET ff == FirstFail(rcs, Len(cmds))
        n == IF ff = 0 THEN Len(cmds) ELSE ff
    IN [i \in 1..n |-> Entry(step, cmds[i], rcs[i], TRUE, hc)]

FailedRc_always_one(entries) ==
    IF entries # <<>> /\ Last(entries).check /\ Last(entries).rc # 0
    THEN 1 ELSE 0

\* The exit code the handler of CalledProcessError passes to sys.exit, or 0.
FailedRc(entries) ==
    IF entries # <<>> /\ Last(entries).check /\ Last(entries).rc # 0
    THEN Last(entries).rc ELSE 0

----------------------------------------------------------------------------
(* Installer A: install_aikbt.py *)

MIN_SIZE == 10

\* Size of a downloaded file after curl returned; -1: the file is missing.
Sizes == {-1, 0, MIN_SIZE - 1, MIN_SIZE, MIN_SIZE + 1}

ImportLine == <<"command script import /home/u/.lldb/aik_bt.py">>
PyLine == <<"export PYTHONPATH=/usr/lib/llvm-15/lib/python3.10/dist-packages:$PYTHONPATH">>

ASteps == <<"apt_install", "download_bt", "download_renderer", "lldbinit",
            "setup_update_alternatives", "bashrc">>

apt_install_cmds_sudo_always(root) ==
    << <<"sudo", "apt", "update">>,
       <<"sudo", "apt", "install", "-y", "lldb-15", "python3-lldb-15", "curl">> >>

apt_install_cmds(root) ==
    IF root
    THEN << <<"apt", "update">>,
            <<"apt", "install", "-y", "lldb-15", "python3-lldb-15", "curl">> >>
    ELSE << <<"sudo", "apt", "update">>,
            <<"sudo", "apt", "install", "-y", "lldb-15", "python3-lldb-15", "curl">> >>

update_alternatives_cmd(root) ==
    IF root
    THEN <<"update-alternatives", "--install", "/usr/bin/lldb", "lldb",
           "/usr/bin/lldb-15", "100">>
    ELSE <<"sudo", "update-alternatives", "--install", "/usr/bin/lldb", "lldb",
           "/usr/bin/lldb-15", "100">>

curl_cmd(which) == <<"curl", "-fsSL", which, "-o", which>>

size_ok_any(size) == size # -1

size_ok(size) == ~(size = -1 \/ size < MIN_SIZE)

InitA ==
    /\ aRoot \in BOOLEAN /\ aSudo \in BOOLEAN /\ aCurl \in BOOLEAN
    /\ aUpdAlt \in BOOLEAN /\ aLldb15 \in BOOLEAN
    /\ aPc = "apt_install" /\ aExit = -1 /\ aWhy = "running"
    /\ aLog = <<>> /\ aSteps = <<>> /\ aRuns = 1 /\ aSudoChecked = FALSE
    /\ lldbinit \in {Absent, FileOf(<<>>), FileOf(<<"x">>),
                     FileOf(ImportLine \o <<NL>>)}
    /\ bashrc \in {Absent, FileOf(<<"x", NL>>), FileOf(<<"x", NL>> \o PyLine)}
    /\ lldbinit0 = lldbinit /\ bashrc0 = bashrc
    /\ btSize = -1 /\ rendSize = -1

\* sys.exit(code) with the diagnostic why.
AExit(code, why) == aPc' = "exited" /\ aExit' = code /\ aWhy' = why

AGoto(pc) == aPc' = pc /\ UNCHANGED <<aExit, aWhy>>

AEnv == <<aRoot, aSudo, aCurl, aUpdAlt, aLldb15, aRuns, lldbinit0, bashrc0>>

A_apt_install ==
    /\ aPc = "apt_install"
    /\ aSteps' = Append(aSteps, "apt_install")
    /\ IF ~aRoot /\ ~aSudo
       THEN /\ AExit(1, "no_sudo")
            /\ aSudoChecked' = TRUE
            /\ UNCHANGED aLog
       ELSE \E rcs \in [1..2 -> Rcs] :
            LET ran == run_checked("apt_install", apt_install_cmds(aRoot), rcs, ~aRoot)
            IN /\ aLog' = aLog \o ran
               /\ aSudoChecked' = ~aRoot
               /\ IF FailedRc(ran) # 0
                  THEN AExit(FailedRc(ran), "command")
                  ELSE AGoto("download_bt")
    /\ UNCHANGED <<AEnv, lldbinit, bashrc, btSize, rendSize, fVars, bVars>>

download_to_ignoring_curl(step, next, size, newSize) ==
    /\ aPc = step
    /\ aSteps' = Append(aSteps, step)
    /\ IF ~aCurl
       THEN /\ AExit(1, "no_curl")
            /\ UNCHANGED aLog
            /\ newSize = size
       ELSE \E rc \in Rcs :
            /\ aLog' = Append(aLog, Entry(step, curl_cmd(step), rc, TRUE, aSudoChecked))
            /\ IF FALSE
               THEN /\ AExit(rc, "command")
                    /\ newSize = size
               ELSE /\ newSize \in Sizes
                    /\ IF size_ok(newSize)
                       THEN AGoto(next)
                       ELSE AExit(1, "download_small")

\* download_to(url, dest); size is the size of dest after curl returned 0.
download_to(step, next, size, newSize) ==
    /\ aPc = step
    /\ aSteps' = Append(aSteps, step)
    /\ IF ~aCurl
       THEN /\ AExit(1, "no_curl")
            /\ UNCHANGED aLog
            /\ newSize = size
       ELSE \E rc \in Rcs :
            /\ aLog' = Append(aLog, Entry(step, curl_cmd(step), rc, TRUE, aSudoChecked))
            /\ IF rc # 0
               THEN /\ AExit(rc, "command")
                    /\ newSize = size
               ELSE /\ newSize \in Sizes
                    /\ IF size_ok(newSize)
                       THEN AGoto(next)
                       ELSE AExit(1, "download_small")

A_download_bt ==
    /\ download_to("download_bt", "download_renderer", btSize, btSize')
    /\ UNCHANGED <<AEnv, aSudoChecked, lldbinit, bashrc, rendSize, fVars, bVars>>

A_download_renderer ==
    /\ download_to("download_renderer", "lldbinit", rendSize, rendSize')
    /\ UNCHANGED <<AEnv, aSudoChecked, lldbinit, bashrc, btSize, fVars, bVars>>

A_lldbinit ==
    /\ aPc = "lldbinit"
    /\ aSteps' = Append(aSteps, "lldbinit")
    /\ lldbinit' = ensure_line_in_file(lldbinit, ImportLine)
    /\ AGoto("setup_update_alternatives")
    /\ UNCHANGED <<AEnv, aSudoChecked, aLog, bashrc, btSize, rendSize, fVars, bVars>>

A_setup_update_alternatives ==
    /\ aPc = "setup_update_alternatives"
    /\ aSteps' = Append(aSteps, "setup_update_alternatives")
    /\ IF ~aUpdAlt \/ ~aLldb15
       THEN UNCHANGED aLog
       ELSE \E rc \in Rcs :
            aLog' = Append(aLog, Entry("setup_update_alternatives",
                                       update_alternatives_cmd(aRoot), rc, FALSE,
                                       aSudoChecked))
    /\ AGoto("bashrc")
    /\ UNCHANGED <<AEnv, aSudoChecked, lldbinit, bashrc, btSize, rendSize, fVars, bVars>>

A_bashrc ==
    /\ aPc = "bashrc"
    /\ aSteps' = Append(aSteps, "bashrc")
    /\ bashrc' = ensure_line_in_file(bashrc, PyLine)
    /\ aPc' = "done" /\ aExit' = 0 /\ aWhy' = "ok"
    /\ UNCHANGED <<AEnv, aSudoChecked, aLog, lldbinit, btSize, rendSize, fVars, bVars>>

\* The script is run again on the same machine.
A_Rerun ==
    /\ aPc \in {"done", "exited"}
    /\ aRuns < MaxRuns
    /\ aRuns' = aRuns + 1
    /\ aPc' = "apt_install" /\ aExit' = -1 /\ aWhy' = "running"
    /\ aLog' = <<>> /\ aSteps' = <<>> /\ aSudoChecked' = FALSE
    /\ lldbinit0' = lldbinit /\ bashrc0' = bashrc
    /\ UNCHANGED <<aRoot, aSudo, aCurl, aUpdAlt, aLldb15, lldbinit, bashrc,
                   btSize, rendSize, fVars, bVars>>

NextA ==
    \/ A_apt_install
    \/ A_download_bt
    \/ A_download_renderer
    \/ A_lldbinit
    \/ A_setup_update_alternatives
    \/ A_bashrc
    \/ A_Rerun

InitOnlyA == InitA /\ fFrozen /\ bFrozen

SpecA == InitOnlyA /\ [][NextA]_vars


----------------------------------------------------------------------------
(* Installer B: setup_tools.py *)

OSes == {"linux", "darwin", "windows", "other"}

SharedVenv == "/opt/course-venv"
HomeVenv == "~/course-venv"

APT_PACKAGES == <<"sudo", "python3", "python3-venv", "python3-pip", "clang",
                  "lldb", "micro", "asciinema", "zip", "unzip", "curl">>
BREW_PACKAGES == <<"micro", "asciinema", "llvm", "zip", "unzip", "curl">>
WINGET_PACKAGES == <<"zyedidia.micro", "LLVM.LLVM", "cURL.cURL", "None">>
PIP_PACKAGES == <<"qrcode[pil]", "check50", "style50", "submit50">>
Tools == <<"check50", "style50", "submit50">>

\* hasattr(os, "geteuid") is false on Windows.
is_root(os, euid0) == os # "windows" /\ euid0

choose_venv_path_shared_always(os, root) ==
    IF os = "linux" THEN SharedVenv ELSE HomeVenv

choose_venv_path(os, root) ==
    IF os = "linux" /\ root THEN SharedVenv ELSE HomeVenv

ensure_admin_linux_sudo_unchecked(root, sudo) ==
    IF root THEN [ok |-> TRUE, prefix |-> <<>>]
    ELSE [ok |-> TRUE, prefix |-> <<"sudo">>]

\* The prefix for privileged commands; ok = FALSE stands for sys.exit(1).
ensure_admin_linux(root, sudo) ==
    IF root THEN [ok |-> TRUE, prefix |-> <<>>]
    ELSE IF sudo THEN [ok |-> TRUE, prefix |-> <<"sudo">>]
    ELSE [ok |-> FALSE, prefix |-> <<>>]

python_bin(os, path) ==
    IF os = "windows" THEN "~/course-venv/Scripts/python.exe"
    ELSE IF path = SharedVenv THEN "/opt/course-venv/bin/python"
    ELSE "~/course-venv/bin/python"

pip_bin(os, path) ==
    IF os = "windows" THEN "~/course-venv/Scripts/pip.exe"
    ELSE IF path = SharedVenv THEN "/opt/course-venv/bin/pip"
    ELSE "~/course-venv/bin/pip"

venv_create_cmd(path) == <<"sys.executable", "-m", "venv", path>>
pip_upgrade_cmd(os, path) ==
    <<python_bin(os, path), "-m", "pip", "install", "-U", "pip", "setuptools", "wheel">>

ensure_venv_cmds_always_create(os, path, venvs) ==
    <<venv_create_cmd(path), pip_upgrade_cmd(os, path)>>

\* The commands of ensure_venv; venvs: the venv directories that exist.
ensure_venv_cmds(os, path, venvs) ==
    (IF path \notin venvs THEN <<venv_create_cmd(path)>> ELSE <<>>)
    \o <<pip_upgrade_cmd(os, path)>>
pip_install_cmd(os, path) == <<pip_bin(os, path), "install", "-U">> \o PIP_PACKAGES
ln_cmd(prefix, tool) ==
    prefix \o <<"ln", "-sf", "/opt/course-venv/bin", tool, "/usr/local/bin", tool>>
winget_cmd(id) ==
    <<"winget", "install", "--id", id, "-e", "--accept-package-agreements",
      "--accept-source-agreements">>

\* The commands that use the interpreter or the pip of the virtual environment.
UsesVenv(e) ==
    e.step \in {"pip_install_in_venv", "print_versions"}
    \/ (e.step = "ensure_venv" /\ e.cmd[1] # "sys.executable")
IsCreate(e) == e.step = "ensure_venv" /\ e.cmd[1] = "sys.executable"

BRoot == is_root(bOs, bEuid0)

InitB ==
    /\ bOs \in OSes /\ bEuid0 \in BOOLEAN /\ bSudo \in BOOLEAN
    /\ bBrew \in BOOLEAN /\ bWinget \in BOOLEAN
    /\ bPc = "main" /\ bExit = -1 /\ bWhy = "running"
    /\ bLog = <<>> /\ bSteps = <<>> /\ bRuns = 1
    /\ bVenv \in SUBSET {SharedVenv, HomeVenv}
    /\ bVenvPath = "" /\ bSudoChecked = FALSE

BExit(code, why) == bPc' = "exited" /\ bExit' = code /\ bWhy' = why

BGoto(pc) == bPc' = pc /\ UNCHANGED <<bExit, bWhy>>

BEnv == <<bOs, bEuid0, bBrew, bWinget, bRuns>>

\* main, lines 254-265: the branch on the operating system.
B_main ==
    /\ bPc = "main"
    /\ bSteps' = Append(bSteps, "main")
    /\ IF bOs = "linux" THEN BGoto("install_on_ubuntu")
       ELSE IF bOs = "darwin" THEN BGoto("install_on_macos")
       ELSE IF bOs = "windows" THEN BGoto("install_on_windows")
       ELSE bPc' = "done" /\ bExit' = 0 /\ bWhy' = "unsupported_os"
    /\ UNCHANGED <<BEnv, bSudo, bLog, bVenv, bVenvPath, bSudoChecked, fVars, aVars>>

\* APT_PACKAGES holds "sudo": once the apt-get install has succeeded, sudo
\* is present on the machine.
B_install_on_ubuntu ==
    /\ bPc = "install_on_ubuntu"
    /\ bSteps' = Append(bSteps, "install_on_ubuntu")
    /\ bSudoChecked' = ~BRoot
    /\ LET adm == ensure_admin_linux(BRoot, bSudo)
       IN IF ~adm.ok
          THEN /\ BExit(1, "no_sudo")
               /\ UNCHANGED <<bLog, bSudo>>
          ELSE \E rcs \in [1..2 -> Rcs] :
               LET cmds == << adm.prefix \o <<"apt-get", "update", "-y">>,
                              adm.prefix \o <<"apt-get", "install", "-y">> \o APT_PACKAGES >>
                   ran == run_checked("install_on_ubuntu", cmds, rcs, ~BRoot)
               IN /\ bLog' = bLog \o ran
                  /\ IF FailedRc(ran) # 0
                     THEN BExit(FailedRc(ran), "command") /\ UNCHANGED bSudo
                     ELSE BGoto("ensure_venv") /\ bSudo' = TRUE
    /\ UNCHANGED <<BEnv, bVenv, bVenvPath, fVars, aVars>>

B_install_on_macos ==
    /\ bPc = "install_on_macos"
    /\ bSteps' = Append(bSteps, "install_on_macos")
    /\ IF ~bBrew
       THEN BGoto("ensure_venv") /\ UNCHANGED bLog
       ELSE \E rcs \in [1..2 -> Rcs] :
            LET cmds == << <<"brew", "update">>, <<"brew", "install">> \o BREW_PACKAGES >>
                ran == run_checked("install_on_macos", cmds, rcs, bSudoChecked)
            IN /\ bLog' = bLog \o ran
               /\ IF FailedRc(ran) # 0
                  THEN BExit(FailedRc(ran), "command")
                  ELSE BGoto("ensure_venv")
    /\ UNCHANGED <<BEnv, bSudo, bVenv, bVenvPath, bSudoChecked, fVars, aVars>>

B_install_on_windows ==
    /\ bPc = "install_on_windows"
    /\ bSteps' = Append(bSteps, "install_on_windows")
    /\ IF ~bWinget
       THEN UNCHANGED bLog
       ELSE LET ids == SelectSeq(WINGET_PACKAGES, LAMBDA id : id # "None")
            IN \E rcs \in [1..Len(ids) -> Rcs] :
               bLog' = bLog \o [i \in 1..Len(ids) |->
                                  Entry("install_on_windows", winget_cmd(ids[i]),
                                        rcs[i], FALSE, bSudoChecked)]
    /\ BGoto("ensure_venv")
    /\ UNCHANGED <<BEnv, bSudo, bVenv, bVenvPath, bSudoChecked, fVars, aVars>>

\* main line 268 (choose_venv_path) and ensure_venv. A venv command that
\* fails may or may not leave the directory behind.
B_ensure_venv ==
    /\ bPc = "ensure_venv"
    /\ bSteps' = Append(bSteps, "ensure_venv")
    /\ LET path == choose_venv_path(bOs, BRoot)
           cmds == ensure_venv_cmds(bOs, path, bVenv)
       IN /\ bVenvPath' = path
          /\ \E rcs \in [1..Len(cmds) -> Rcs], left \in BOOLEAN :
             LET ran == run_checked("ensure_venv", cmds, rcs, bSudoChecked)
             IN /\ bLog' = bLog \o ran
                /\ bVenv' = IF path \in bVenv \/ ran[1].rc = 0 \/ left
                            THEN bVenv \cup {path} ELSE bVenv
                /\ IF FailedRc(ran) # 0
                   THEN BExit(FailedRc(ran), "command")
                   ELSE BGoto("pip_install_in_venv")
    /\ UNCHANGED <<BEnv, bSudo, bSudoChecked, fVars, aVars>>

B_pip_install_in_venv ==
    /\ bPc = "pip_install_in_venv"
    /\ bSteps' = Append(bSteps, "pip_install_in_venv")
    /\ \E rc \in Rcs :
       /\ bLog' = Append(bLog, Entry("pip_install_in_venv",
                                     pip_install_cmd(bOs, bVenvPath), rc, TRUE,
                                     bSudoChecked))
       /\ IF rc # 0 THEN BExit(rc, "command")
          ELSE BGoto("symlink_cli_tools_linux_shared")
    /\ UNCHANGED <<BEnv, bSudo, bVenv, bVenvPath, bSudoChecked, fVars, aVars>>

B_symlink_cli_tools_linux_shared ==
    /\ bPc = "symlink_cli_tools_linux_shared"
    /\ bSteps' = Append(bSteps, "symlink_cli_tools_linux_shared")
    /\ IF bOs # "linux" \/ bVenvPath # SharedVenv
       THEN BGoto("print_versions") /\ UNCHANGED <<bLog, bSudoChecked>>
       ELSE LET adm == ensure_admin_linux(BRoot, bSudo)
            IN /\ bSudoChecked' = (bSudoChecked \/ ~BRoot)
               /\ IF ~adm.ok
                  THEN BExit(1, "no_sudo") /\ UNCHANGED bLog
                  ELSE \E present \in SUBSET {"check50", "style50", "submit50"} :
                       LET found == SelectSeq(Tools, LAMBDA t : t \in present)
                           cmds == [i \in 1..Len(found) |-> ln_cmd(adm.prefix, found[i])]
                       IN \E rcs \in [1..Len(cmds) -> Rcs] :
                          LET ran == run_checked("symlink_cli_tools_linux_shared",
                                                 cmds, rcs, bSudoChecked')
                          IN /\ bLog' = bLog \o ran
                             /\ IF FailedRc(ran) # 0
                                THEN BExit(FailedRc(ran), "command")
                                ELSE BGoto("print_versions")
    /\ UNCHANGED <<BEnv, bSudo, bVenv, bVenvPath, fVars, aVars>>

\* print_versions: the probes of the system tools (first_line) and of the
\* packages of the virtual environment; a failing probe is caught and
\* reported as "unknown" or "not installed". The log keeps one probe, made
\* with the interpreter of the virtual environment.
B_print_versions ==
    /\ bPc = "print_versions"
    /\ bSteps' = Append(bSteps, "print_versions")
    /\ \E rc \in Rcs :
       bLog' = Append(bLog, Entry("print_versions",
                                  <<python_bin(bOs, bVenvPath), "-c", "version">>,
                                  rc, FALSE, bSudoChecked))
    /\ bPc' = "done" /\ bExit' = 0 /\ bWhy' = "ok"
    /\ UNCHANGED <<BEnv, bSudo, bVenv, bVenvPath, bSudoChecked, fVars, aVars>>

\* The script is run again on the same machine, as the same or another user.
B_Rerun ==
    /\ bPc \in {"done", "exited"}
    /\ bRuns < MaxRuns
    /\ bRuns' = bRuns + 1
    /\ bEuid0' \in BOOLEAN
    /\ bPc' = "main" /\ bExit' = -1 /\ bWhy' = "running"
    /\ bLog' = <<>> /\ bSteps' = <<>> /\ bSudoChecked' = FALSE /\ bVenvPath' = ""
    /\ UNCHANGED <<bOs, bSudo, bBrew, bWinget, bVenv, fVars, aVars>>

NextB ==
    \/ B_main
    \/ B_install_on_ubuntu
    \/ B_install_on_macos
    \/ B_install_on_windows
    \/ B_ensure_venv
    \/ B_pip_install_in_venv
    \/ B_symlink_cli_tools_linux_shared
    \/ B_print_versions
    \/ B_Rerun

InitOnlyB == InitB /\ fFrozen /\ aFrozen

SpecB == InitOnlyB /\ [][NextB]_vars

----------------------------------------------------------------------------
(* Either script is run *)

Init ==
    /\ fFrozen
    /\ \/ InitA /\ bFrozen
       \/ InitB /\ aFrozen

Next == NextA \/ NextB

Spec == Init /\ [][Next]_vars

----------------------------------------------------------------------------
(* Claims *)


Max(x, y) == IF x >= y THEN x ELSE y

C2_TrailingNewline ==
    (fCalls >= 1 /\ fFile # fPrev) =>
        /\ fFile.content # <<>> /\ Last(fFile.content) = NL
        /\ (fPrev.content # <<>> /\ Last(fPrev.content) # NL
              => fFile.content = fPrev.content \o <<NL>> \o fLine \o <<NL>>)

----------------------------------------------------------------------------
(* Claims about the two installers *)

Idx(log) == 1..Len(log)
ATerminated == aPc \in {"done", "exited"}
BTerminated == bPc \in {"done", "exited"}
PrivSteps == {"apt_install", "setup_update_alternatives", "install_on_ubuntu",
              "symlink_cli_tools_linux_shared"}
HasStep(steps, st) == \E i \in 1..Len(steps) : steps[i] = st
CheckedFail(e) == e.check /\ e.rc # 0
OkCount(log, step) == Cardinality({i \in Idx(log) : log[i].step = step /\ log[i].rc = 0})
StepCount(log, step) == Cardinality({i \in Idx(log) : log[i].step = step})

PrivRule(e, root, sudo) ==
    /\ root => e.cmd[1] # "sudo"
    /\ (~root /\ sudo) => /\ e.cmd[1] = "sudo"
                          /\ e.cmd[2] # "sudo"
                          /\ e.helperChecked

\* C3: every privileged command of either installer is run without 'sudo'
\* when the process is superuser, and with exactly one leading 'sudo', whose
\* presence was looked up earlier in the run, when the process is not
\* superuser and 'sudo' is present.
C3_PrivilegePrefix ==
    /\ \A i \in Idx(aLog) : aLog[i].step \in PrivSteps => PrivRule(aLog[i], aRoot, aSudo)
    /\ \A i \in Idx(bLog) : bLog[i].step \in PrivSteps => PrivRule(bLog[i], BRoot, bSudo)

C3_Witness ==
    /\ ~aRoot /\ aSudo
    /\ \E i \in Idx(aLog) : /\ aLog[i].step = "setup_update_alternatives"
                            /\ aLog[i].cmd[1] = "sudo"
    /\ \E i \in Idx(aLog) : aLog[i].step = "apt_install" /\ aLog[i].cmd[1] = "sudo"

\* C4: not superuser and no 'sudo': on Linux each installer exits non-zero
\* with the diagnostic at its first privileged step; no command is run, no
\* later step is started and no file is written.
C4_NoSudoExits ==
    /\ (aPc # "idle" /\ ~aRoot /\ ~aSudo) =>
          /\ aLog = <<>>
          /\ IsPrefix(aSteps, <<"apt_install">>)
          /\ lldbinit = lldbinit0 /\ bashrc = bashrc0
          /\ btSize = -1 /\ rendSize = -1
          /\ aSteps # <<>> => (aPc = "exited" /\ aExit # 0 /\ aWhy = "no_sudo")
    /\ (bPc # "idle" /\ bOs = "linux" /\ ~BRoot /\ ~bSudo) =>
          /\ bLog = <<>>
          /\ IsPrefix(bSteps, <<"main", "install_on_ubuntu">>)
          /\ bVenvPath = ""
          /\ HasStep(bSteps, "install_on_ubuntu")
                => (bPc = "exited" /\ bExit # 0 /\ bWhy = "no_sudo")

C4_Witness ==
    /\ bOs = "linux" /\ ~BRoot /\ ~bSudo
    /\ bPc = "exited" /\ bWhy = "no_sudo" /\ bExit = 1

CurlOk(step) == \E i \in Idx(aLog) : aLog[i].step = step /\ aLog[i].rc = 0
SizeOf(step) == IF step = "download_bt" THEN btSize ELSE rendSize

\* C5: in Installer A, when curl returned and the downloaded file is missing
\* or smaller than 10 bytes, the run exits non-zero at that download: no
\* later download, no write of either config file and no update-alternatives
\* call; a file of 10 bytes or more passes the check.
C5_SmallDownload ==
    \A step \in {"download_bt", "download_renderer"} :
        CurlOk(step) =>
            IF SizeOf(step) = -1 \/ SizeOf(step) < MIN_SIZE
            THEN /\ aPc = "exited" /\ aExit # 0 /\ aWhy = "download_small"
                 /\ Last(aSteps) = step
                 /\ Last(aLog).step = step
                 /\ lldbinit = lldbinit0 /\ bashrc = bashrc0
            ELSE ~(aPc = "exited" /\ Last(aSteps) = step)

C5_Witness ==
    /\ aPc = "exited" /\ aWhy = "download_small" /\ aExit = 1
    /\ Last(aSteps) = "download_renderer"
    /\ rendSize = MIN_SIZE - 1 /\ btSize = MIN_SIZE

FirstBad(log) ==
    CHOOSE i \in Idx(log) : log[i].rc # 0 /\ \A j \in 1..(i - 1) : log[j].rc = 0

ExitAsStated(term, code, log) ==
    term => /\ code = 0 <=> \A i \in Idx(log) : log[i].rc = 0
            /\ code # 0 => /\ \E i \in Idx(log) : log[i].rc # 0
                           /\ code = log[FirstBad(log)].rc

\* C6 (as stated): the exit code is 0 iff every external command of the run
\* succeeded, and otherwise the exit code of the first command that failed.
C6_AsStated ==
    /\ ExitAsStated(ATerminated, aExit, aLog)
    /\ ExitAsStated(BTerminated, bExit, bLog)

PrecondWhy == {"no_sudo", "no_curl", "download_small"}

ExitAmended(term, code, why, log) ==
    term =>
        LET bad == {i \in Idx(log) : CheckedFail(log[i])}
        IN /\ code = 0 <=> (bad = {} /\ why \notin PrecondWhy)
           /\ bad # {} => /\ bad = {Len(log)}
                          /\ code = Last(log).rc
                          /\ why = "command"
           /\ (bad = {} /\ code # 0) => (code = 1 /\ why \in PrecondWhy)

\* C6 (amended): the exit code is 0 iff every command run with check=True
\* succeeded and no precondition check failed; a checked command that failed
\* is the last command of the run and its exit code is the exit code of the
\* script; a failed precondition gives exit code 1; commands run best-effort
\* do not affect the exit code.
C6_ExitCode ==
    /\ ExitAmended(ATerminated, aExit, aWhy, aLog)
    /\ ExitAmended(BTerminated, bExit, bWhy, bLog)

C6_Witness ==
    /\ aPc = "done" /\ aExit = 0
    /\ \E i \in Idx(aLog) : aLog[i].rc # 0 /\ ~aLog[i].check

FailFastAsStated(pc, code, log) ==
    \A i \in Idx(log) : log[i].rc # 0 =>
        /\ i = Len(log)
        /\ pc = "exited" /\ code # 0

FailFastAmended(pc, code, why, log, steps) ==
    /\ \A i \in Idx(log) : CheckedFail(log[i]) =>
          /\ i = Len(log)
          /\ pc = "exited" /\ code = log[i].rc /\ why = "command"
          /\ log[i].step = Last(steps)
    /\ \A i \in Idx(log) : \A j \in Idx(log) :
          (i < j /\ log[i].rc # 0) => log[j].cmd # log[i].cmd
    /\ pc = "exited" <=> why \in (PrecondWhy \cup {"command"})
    /\ pc = "exited" => code # 0
    /\ why \in PrecondWhy => code = 1
    /\ \A i \in Idx(log) : \A j \in 1..Len(steps) :
          log[i].step = steps[j] => \A k \in 1..i : \E m \in 1..j : log[k].step = steps[m]

AllOk(log, step, n) == OkCount(log, step) = n /\ StepCount(log, step) = n

\* C9: a run of Installer A starts its steps in the fixed order apt_install,
\* download, download, lldbinit, update-alternatives, bashrc, each after the
\* earlier ones have finished, and writes the two config files only when the
\* package installation and both downloads have succeeded.
C9_OrderA ==
    /\ IsPrefix(aSteps, ASteps)
    /\ \A i \in Idx(aLog) : \A j \in Idx(aLog) :
          i < j => \E m \in 1..Len(ASteps) : \E n \in m..Len(ASteps) :
                      aLog[i].step = ASteps[m] /\ aLog[j].step = ASteps[n]
    /\ (HasStep(aSteps, "lldbinit") \/ lldbinit # lldbinit0 \/ bashrc # bashrc0) =>
          /\ AllOk(aLog, "apt_install", 2)
          /\ AllOk(aLog, "download_bt", 1)
          /\ AllOk(aLog, "download_renderer", 1)
          /\ btSize >= MIN_SIZE /\ rendSize >= MIN_SIZE
    /\ bashrc # bashrc0 => HasStep(aSteps, "setup_update_alternatives")

C9_Witness ==
    /\ aPc = "done"
    /\ aSteps = ASteps
    /\ lldbinit # lldbinit0 /\ bashrc # bashrc0

InstallStep == [linux |-> "install_on_ubuntu", darwin |-> "install_on_macos",
                windows |-> "install_on_windows", other |-> "none"]
BStepsOf(os) == <<"main", InstallStep[os], "ensure_venv", "pip_install_in_venv",
                  "symlink_cli_tools_linux_shared", "print_versions">>

OrderB ==
    /\ IsPrefix(bSteps, BStepsOf(bOs))
    /\ bOs = "other" => (IsPrefix(bSteps, <<"main">>) /\ bLog = <<>>)
    /\ \A i \in Idx(bLog) :
          bLog[i].step = "symlink_cli_tools_linux_shared"
             => (bOs = "linux" /\ bVenvPath = SharedVenv)
    /\ bVenvPath = SharedVenv => (bOs = "linux" /\ BRoot)

\* C10 (as stated): a run of Installer B that reaches the venv step has
\* detected a supported OS and installed the OS packages with the package
\* manager of the platform; the steps follow in the fixed order; the symlink
\* step runs commands only on Linux with the shared venv path, which is
\* chosen only as superuser; on an unsupported OS nothing runs.
C10_AsStated ==
    /\ OrderB
    /\ HasStep(bSteps, "ensure_venv") =>
          /\ bOs \in {"linux", "darwin", "windows"}
          /\ bOs = "linux" => AllOk(bLog, "install_on_ubuntu", 2)
          /\ bOs = "darwin" => AllOk(bLog, "install_on_macos", 2)
          /\ bOs = "windows" => AllOk(bLog, "install_on_windows", 3)

\* C10 (amended): as stated, except that the OS-package step has run rather
\* than installed: on Linux both apt-get commands succeeded; on macOS both
\* brew commands succeeded when brew is present and none was run when it is
\* absent; on Windows the three winget installs were attempted, with any
\* result, when winget is present and none was run when it is absent.
C10_OrderB ==
    /\ OrderB
    /\ HasStep(bSteps, "ensure_venv") =>
          /\ bOs \in {"linux", "darwin", "windows"}
          /\ bOs = "linux" => AllOk(bLog, "install_on_ubuntu", 2)
          /\ bOs = "darwin" =>
                IF bBrew THEN AllOk(bLog, "install_on_macos", 2)
                ELSE StepCount(bLog, "install_on_macos") = 0
          /\ bOs = "windows" =>
                StepCount(bLog, "install_on_windows") = (IF bWinget THEN 3 ELSE 0)

C10_Witness ==
    /\ bPc = "done" /\ bWhy = "ok"
    /\ bOs = "linux"
    /\ bSteps = BStepsOf("linux")
    /\ StepCount(bLog, "symlink_cli_tools_linux_shared") = 3

====
